---- MODULE Spec2Model ----
(***************************************************************************)
(* Query construction and pagination of the STAC catalog API.              *)
(*                                                                         *)
(* One action per handler:                                                 *)
(*   search_get_all_stacs            routers/search.py  GET /v1/search     *)
(*   items_get_satellite_stac_data   routers/items.py   collection items   *)
(*   items_get_stac_item             routers/items.py   single item        *)
(*   items_download_stac_item_zip    routers/items.py   item download      *)
(*   main_get_all_stacs              main.py            /stacs/all         *)
(*   main_get_satellite_stac_data    main.py            /stacs/satellite   *)
(* A handler runs from the arrival of the request to its response in one   *)
(* step.  The client either sends a fresh request or re-issues the next    *)
(* URL of the last response.                                               *)
(*                                                                         *)
(* An optional value is a sequence: << >> is None / absent, <<v>> is v.    *)
(* Row materialisation (serialize_rows, build_products) keeps the order of *)
(* the rows and raises when a row cannot be decoded.  The bodies in the    *)
(* source do not match their callers: utils.serialize_rows(rows, keys)     *)
(* reads the unbound name dataframe, routers/items.py calls it with one    *)
(* argument, and build_products of main.py omits fields that StacBase      *)
(* requires.  materialises is fixed at start: TRUE, the functions do what  *)
(* their docstrings say; FALSE, they do what their bodies do.              *)
(***************************************************************************)
EXTENDS Integers, Sequences, FiniteSets, TLC

\* ------------------------------------------------------------------ bounds
MaxRows == 3
MaxLimit == 2
MaxOffset == 1
MaxNum == 3
MaxDay == 2
MaxAnswered == 6
MaxUser == 2
MaxCalls == 2
MaxRequests == 3

\* --------------------------------------------------------- program constants
LIMIT == 7
OFFSET == 0
SearchMaxLimit == 50
ItemsMaxLimit == 15
AllMaxLimit == 100
COLLECTIONS == {"PierSight_V01"}
ALLOWED_PLATFORM == {"VARUNA-1", "VARUNA-2", "VARUNA-3"}

\* ----------------------------------------------------------- optional values
None == << >>
Some(v) == <<v>>
Has(o) == o # << >>
Val(o) == o[1]
\* Python truthiness of an Optional[int]: None and 0 are falsy
IntTruthy(o) == Has(o) /\ Val(o) # 0
\* Python truthiness of an Optional[str]: None and "" are falsy
StrTruthy(o) == Has(o) /\ Val(o) # ""
Min(a, b) == IF a < b THEN a ELSE b

\* ------------------------------------------------------------- time strings
\* A time string is [sep, z, d]: the date d, the separator between date and
\* time ("T", or "sp" for a blank), and whether it ends in Z.  sep = "bad"
\* is a string that is not ISO-8601.
BadTime == [sep |-> "bad", z |-> FALSE, d |-> 0]
TimeStr(sep, z, d) == [sep |-> sep, z |-> z, d |-> d]

\* validate_time: strip one trailing Z, then datetime.fromisoformat
validate_time(time) == (~Has(time)) \/ Val(time).sep # "bad"

\* convert_to_datetime: strptime "%Y-%m-%dT%H:%M:%SZ", None when it fails
convert_to_datetime(time_in_str) ==
    IF Has(time_in_str) /\ Val(time_in_str).sep = "T" /\ Val(time_in_str).z
    THEN Some(Val(time_in_str).d)
    ELSE None

\* str(datetime): "YYYY-MM-DD HH:MM:SS"
datetime_str(dt) == TimeStr("sp", FALSE, dt)

\* a > b on the raw strings (lexicographic): date, then separator
\* (blank < T), then the longer string
str_gt(a, b) ==
    IF a.d # b.d THEN a.d > b.d
    ELSE IF a.sep # b.sep THEN a.sep = "T"
    ELSE a.z /\ ~b.z

\* ---------------------------------------------------------- spatial strings
\* A spatial string is [kind, comps, len]:
\*   "csv"    comma separated numbers comps
\*   "text"   comma separated, some component not a number
\*   "pylist" str() of a Python list of floats comps: "[0.0, 0.0, 1.0, 1.0]"
\*   "wkt"    well-formed WKT whose envelope is comps, len characters long
\*   "junk"   len = Len(comps) characters comps, not WKT
Spatial(kind, comps, len) == [kind |-> kind, comps |-> comps, len |-> len]

\* [float(x) for x in bbox.split(",")]; None stands for ValueError
parse_bbox(bbox) == IF bbox.kind = "csv" THEN Some(bbox.comps) ELSE None

\* utils.validate_bbox on a sequence b of n items (a list of floats on the
\* search route, the characters of the string on the items route)
validate_bbox_seq(n, b) ==
    /\ n = 4 \/ n = 6
    /\ ~(b[1] > b[3] \/ b[2] > b[4])

\* main.validate_coordinates: wkt.loads succeeds
validate_coordinates(coordinates) ==
    (~Has(coordinates)) \/ Val(coordinates).kind = "wkt"

\* ------------------------------------------------------------------- store
\* store       the rows of the table, in table order
\* ordered     the engine hands rows back in table order where the query
\*             leaves the order open
\* req, resp   the last request and its response
\* plan, execs the query the last handler executed, and how many it executed
\* opened      the DuckDB connections the last handler opened
\* open_conns  the DuckDB connections opened by handlers and not closed
\* prev        products and query of the page whose next URL the last
\*             request re-issued
\* origin      the first request of the walk along next URLs
\* pages       the responses of the walk so far
VARIABLES store, ordered, materialises, req, resp, plan, execs, opened,
          open_conns, prev, pages, origin, fetched

list_vars == <<store, ordered, materialises, req, resp, plan, execs, opened,
               open_conns, prev, pages, origin, fetched>>

\* The rate limiter and the response cache in front of the handlers:
\* limiter[c][e], the hits the limiter has counted for client address c on
\* endpoint e in its current window; cache, the endpoints whose response is
\* stored; answered[c][e], the requests of c to e answered with another
\* status than 429 in that window; last, the last answer.
VARIABLES limiter, cache, answered, last

rate_vars == <<limiter, cache, answered, last>>

\* The collection table: table, the ids of the committed rows; creply, the
\* last answer of a collection handler.
VARIABLES table, creply

coll_vars == <<table, creply>>

\* The JWT middleware: users, the ids of the rows of the user table;
\* calls, the number of times the middleware has called the downstream
\* handler; jreply, the last request through the middleware, the user
\* table it was checked against and its answer.
VARIABLES users, calls, jreply

jwt_vars == <<users, calls, jreply>>

\* Registration (auth-service): user_rows, the emails of the committed rows
\* of the user table in the order of their commit; reg, for each request
\* of create_users its email, its position in the handler, what its select
\* found and its answer.
VARIABLES user_rows, reg

reg_vars == <<user_rows, reg>>

vars == <<list_vars, rate_vars, coll_vars, jwt_vars, reg_vars>>

\* what each component leaves alone
not_list == <<rate_vars, coll_vars, jwt_vars, reg_vars>>
not_rate == <<list_vars, coll_vars, jwt_vars, reg_vars>>
not_coll == <<list_vars, rate_vars, jwt_vars, reg_vars>>
not_jwt == <<list_vars, rate_vars, coll_vars, reg_vars>>
not_reg == <<list_vars, rate_vars, coll_vars, jwt_vars>>

\* Row i of the table.  satellite_name and platform are the category
\* columns of the two schema generations; the row covers the point (x, y)
\* and was acquired on day t (the table is not in acquisition order); ok:
\* its geometry decodes.
Row(i, bad) ==
    [id |-> i, product_name |-> i,
     satellite_name |-> IF i = 4 THEN "PierSight_V02" ELSE "PierSight_V01",
     platform |-> IF i = 4 THEN "VARUNA-2" ELSE "VARUNA-1",
     t |-> IF i \in {1, 4} THEN 2 ELSE 1,
     x |-> IF i = 3 THEN 5 ELSE 0,
     y |-> IF i = 3 THEN 5 ELSE 0,
     ok |-> i # bad]

Table(n, bad) == [i \in 1..n |-> Row(i, bad)]

\* A query: the predicate clauses, ORDER BY, LIMIT and OFFSET (item: the
\* product_name clause of the single-item query)
Query(category, spatial, time, order_by, limit, offset) ==
    [category |-> category, spatial |-> spatial, time |-> time,
     order_by |-> order_by, limit |-> limit, offset |-> offset,
     item |-> None]

\* the single-item query: category and product_name, no LIMIT, no OFFSET
ItemQuery(category, item) ==
    [Query(Some(category), None, None, FALSE, None, None)
       EXCEPT !.item = Some(item)]

Match(r, q) ==
    /\ Has(q.category) =>
         Val(q.category) \in {r.satellite_name, r.platform}
    /\ Has(q.spatial) =>
         LET e == Val(q.spatial)
         IN e[1] <= r.x /\ r.x <= e[3] /\ e[2] <= r.y /\ r.y <= e[4]
    /\ Has(q.time) => r.t >= Val(q.time)[1] /\ r.t <= Val(q.time)[2]
    /\ Has(q.item) => r.product_name = Val(q.item)

Matching(q) == SelectSeq(store, LAMBDA r : Match(r, q))

\* the orders in which the engine may hand back the matching rows: the
\* ORDER BY column decides, rows it does not separate come in table order
\* when the engine is stable and in any order otherwise
ScanOrders(q) ==
    LET m == Matching(q)
        n == Len(m)
        sorted(p) == \A i, j \in 1..n : i < j => m[p[i]].t <= m[p[j]].t
        stable(p) == \A i, j \in 1..n :
                        (i < j /\ (~q.order_by \/ m[p[i]].t = m[p[j]].t))
                            => p[i] < p[j]
    IN {[i \in 1..n |-> m[p[i]]] :
          p \in {f \in [1..n -> 1..n] :
                   /\ \A i, j \in 1..n : f[i] = f[j] => i = j
                   /\ q.order_by => sorted(f)
                   /\ ordered => stable(f)}}

\* LIMIT l OFFSET o
Slice(s, l, o) == SubSeq(s, o + 1, Min(o + l, Len(s)))

\* what executing q can give: an error, or the rows of one page
ExecOutcomes(q) ==
    {[fail |-> TRUE, rows |-> << >>, connected |-> TRUE]}
      \cup (IF Has(q.item)
            THEN {[fail |-> FALSE, rows |-> s, connected |-> TRUE] :
                    s \in ScanOrders(q)}
            ELSE IF q.limit < 0 THEN {}
            ELSE {[fail |-> FALSE, connected |-> TRUE,
                   rows |-> Slice(s, q.limit,
                                  IF Has(q.offset) THEN Val(q.offset) ELSE 0)] :
                     s \in ScanOrders(q)})

NoOutcome == [fail |-> TRUE, rows |-> << >>, connected |-> TRUE]

\* duckdb_connection() raises: connect, INSTALL/LOAD or SET fails
ConnectFailure == [fail |-> TRUE, rows |-> << >>, connected |-> FALSE]

\* ------------------------------------------------------------ request URLs
\* The route, the path parameter and the query string of a request.
Url(route, path_id, collectionId, bbox, coordinates, start_time, stop_time, num, limit, offset) ==
    [route |-> route, path_id |-> path_id, collectionId |-> collectionId,
     bbox |-> bbox, coordinates |-> coordinates,
     start_time |-> start_time, stop_time |-> stop_time,
     num |-> num, limit |-> limit, offset |-> offset,
     acquisition_start_utc |-> None, acquisition_end_utc |-> None,
     itemId |-> None]

\* a request to a route with the two path parameters collectionId, itemId
ItemUrl(route, collectionId, itemId) ==
    [Url(route, Some(collectionId), None, None, None, None, None, None, None,
         None) EXCEPT !.itemId = Some(itemId)]

\* Query(LIMIT, ge=1, le=B) and Query(OFFSET, ge=0)
limit_of(url) == IF Has(url.limit) THEN Val(url.limit) ELSE LIMIT
offset_of(url) == IF Has(url.offset) THEN Val(url.offset) ELSE OFFSET
\* the lower bound of limit off by one
query_params_ok_from_zero(url, B) ==
    /\ limit_of(url) >= 0 /\ limit_of(url) <= B
    /\ offset_of(url) >= 0

query_params_ok(url, B) ==
    /\ limit_of(url) >= 1 /\ limit_of(url) <= B
    /\ offset_of(url) >= 0

\* ---------------------------------------------------------------- responses
Page_counts_store(status, products, next) ==
    [status |-> status, total_count |-> Len(store),
     products |-> products, next |-> next]

Page(status, products, next) ==
    [status |-> status, total_count |-> Len(products),
     products |-> products, next |-> next]

\* what a handler run leaves behind: the response, the query it executed
\* (if it got that far), the number of executions, and the DuckDB
\* connections it opened and closed
Run(r, q, n, o, c) ==
    [resp |-> r, plan |-> q, execs |-> n, opened |-> o, closed |-> c]

Rejected(status) == Run(Page(status, << >>, None), None, 0, 0, 0)

main_serialize_rows_skips(dataframe) ==
    Some(SelectSeq(dataframe, LAMBDA r : r.ok))

\* main.py serialize_rows(dataframe) keeps the order of the rows; decoding
\* the geometry of a row raises when the stored value is not valid WKB
main_serialize_rows(dataframe) ==
    IF \E i \in 1..Len(dataframe) : ~dataframe[i].ok THEN None
    ELSE Some(dataframe)

\* utils.py serialize_rows(rows, keys): the body reads dataframe, which is
\* neither a parameter nor a global (NameError), and routers/items.py
\* passes one argument for the two parameters (TypeError)
serialize_rows(rows) ==
    IF ~materialises THEN None ELSE main_serialize_rows(rows)

\* [build_products(stac_obj) for stac_obj in data], a product by its id
build_products(data) == [i \in 1..Len(data) |-> data[i].id]

\* main.py build_products: StacBase(...) without geom_type,
\* bounding_box_wkb and product_name, which the schema requires
main_build_products(data) ==
    IF ~materialises /\ Len(data) > 0 THEN None
    ELSE Some(build_products(data))

\* if num and num<limit: limit = num
EffectiveLimit(num, limit) ==
    IF IntTruthy(num) /\ Val(num) < limit THEN Val(num) ELSE limit

\* a next URL that repeats the offset of the request
next_offset_repeats(limit, offset) ==
    IF offset # 0 THEN offset ELSE limit

\* params['offset'] of the next URL
next_offset(limit, offset) ==
    IF offset # 0 THEN limit + offset ELSE limit

\* the condition under which the routes that take num emit a next URL;
\* limit is the effective limit
num_next_allowed(num, limit, offset, n_products) ==
    /\ \/ /\ IntTruthy(num) /\ (limit + offset) < Val(num)
          /\ IntTruthy(num) /\ offset < Val(num)
       \/ ~IntTruthy(num)
    /\ n_products = limit
    /\ (~Has(num)) \/ limit # Val(num)

\* the condition of the search route
search_next_allowed(limit, n_products) == n_products = limit

\* ------------------------------------------- routers/search.py get_all_stacs
search_next(url, bbox, start_time, stop_time, limit, offset) ==
    LET u1 == IF Has(bbox) /\ Len(Val(bbox)) > 0
              THEN [url EXCEPT !.bbox =
                      Some(Spatial("pylist", Val(bbox), Len(Val(bbox))))]
              ELSE url
        u2 == IF Has(start_time) /\ Has(stop_time)
              THEN [u1 EXCEPT !.start_time = Some(datetime_str(Val(start_time))),
                              !.stop_time = Some(datetime_str(Val(stop_time)))]
              ELSE u1
    IN [u2 EXCEPT !.limit = Some(limit),
                  !.offset = Some(next_offset(limit, offset))]

search_run(url, out) ==
    LET collectionId == url.collectionId
        by_collection == IF StrTruthy(collectionId) THEN collectionId ELSE None
        limit == limit_of(url)
        offset == offset_of(url)
        bbox == IF Has(url.bbox) THEN parse_bbox(Val(url.bbox)) ELSE None
        both == Has(url.start_time) /\ Has(url.stop_time)
        start_time == IF both THEN convert_to_datetime(url.start_time) ELSE None
        stop_time == IF both THEN convert_to_datetime(url.stop_time) ELSE None
        timed == Has(start_time) /\ Has(stop_time)
        q == Query(by_collection,
                   IF Has(bbox) THEN Some(SubSeq(Val(bbox), 1, 4)) ELSE None,
                   IF timed THEN Some(<<Val(start_time), Val(stop_time)>>)
                   ELSE None,
                   timed, limit,
                   IF offset # 0 THEN Some(offset) ELSE None)
        data == serialize_rows(out.rows)
    IN
    IF ~query_params_ok(url, SearchMaxLimit) THEN Rejected(422)
    ELSE IF StrTruthy(collectionId) /\ Val(collectionId) \notin COLLECTIONS
    THEN Rejected(400)
    ELSE IF Has(url.bbox) /\ ~Has(bbox) THEN Rejected(422)
    ELSE IF Has(bbox) /\ ~validate_bbox_seq(Len(Val(bbox)), Val(bbox))
    THEN Rejected(422)
    ELSE IF ~(validate_time(url.start_time) /\ validate_time(url.stop_time))
    THEN Rejected(422)
    ELSE IF both /\ str_gt(Val(url.start_time), Val(url.stop_time))
    THEN Rejected(400)
    ELSE IF out.fail \/ ~Has(data)
    THEN Run(Page(500, << >>, None), Some(q), 1, 0, 0)
    ELSE IF Len(Val(data)) = 0
    THEN Run(Page(404, << >>, None), Some(q), 1, 0, 0)
    ELSE LET products == build_products(Val(data))
         IN Run(Page(200, products,
                     IF search_next_allowed(limit, Len(products))
                     THEN Some(search_next(url, bbox, start_time, stop_time,
                                           limit, offset))
                     ELSE None),
                Some(q), 1, 0, 0)

\* -------------------------- the part the three DuckDB handlers have in common
\* the query text built inside the try block (None: wkt.loads raised)
duck_query(category, coordinates, start_time, stop_time, limit, offset) ==
    IF Has(coordinates) /\ Val(coordinates).kind # "wkt" THEN None
    ELSE Some(Query(category,
                    IF Has(coordinates) THEN Some(Val(coordinates).comps)
                    ELSE None,
                    IF Has(start_time) /\ Has(stop_time)
                    THEN Some(<<Val(start_time), Val(stop_time)>>) ELSE None,
                    FALSE, limit,
                    IF offset # 0 THEN Some(offset) ELSE None))

\* the next URL of the items route: the converted times go under the
\* column names
items_next(url, start_time, stop_time, limit, offset) ==
    LET u1 == IF Has(start_time) /\ Has(stop_time)
              THEN [url EXCEPT
                      !.acquisition_start_utc =
                          Some(datetime_str(Val(start_time))),
                      !.acquisition_end_utc =
                          Some(datetime_str(Val(stop_time)))]
              ELSE url
    IN [u1 EXCEPT !.limit = Some(limit),
                  !.offset = Some(next_offset(limit, offset))]

\* the next URL of the main.py routes
main_next(url, start_time, stop_time, limit, offset) ==
    LET u1 == IF Has(start_time) /\ Has(stop_time)
              THEN [url EXCEPT
                      !.start_time = Some(datetime_str(Val(start_time))),
                      !.stop_time = Some(datetime_str(Val(stop_time)))]
              ELSE url
    IN [u1 EXCEPT !.limit = Some(limit),
                  !.offset = Some(next_offset(limit, offset))]

duck_finish_failure_as_empty(url, q, out, limit, offset, next) ==
    LET main == url.route \in {"main_all", "main_sat"}
        data == IF ~Has(q) THEN None
                ELSE IF out.fail THEN Some(<< >>)
                ELSE IF main THEN main_serialize_rows(out.rows)
                ELSE serialize_rows(out.rows)
        built == IF main THEN main_build_products(Val(data))
                 ELSE Some(build_products(Val(data)))
    IN IF ~Has(q) THEN Run(Page(500, << >>, None), None, 0, 1, 1)
       ELSE IF ~Has(data) THEN Run(Page(500, << >>, None), q, 1, 1, 1)
       ELSE IF Len(Val(data)) = 0
       THEN Run(Page(404, << >>, None), q, 1, 1, 1)
       ELSE IF ~Has(built) THEN Run(Page(500, << >>, None), q, 1, 1, 1)
       ELSE LET products == Val(built)
            IN Run(Page(200, products,
                        IF num_next_allowed(url.num, limit, offset,
                                            Len(products))
                        THEN Some(next) ELSE None),
                   q, 1, 1, 1)

\* try: execute, serialize_rows; finally: conn.close(); then 404 or the page
duck_finish(url, q, out, limit, offset, next) ==
    LET main == url.route \in {"main_all", "main_sat"}
        data == IF ~Has(q) \/ out.fail THEN None
                ELSE IF main THEN main_serialize_rows(out.rows)
                ELSE serialize_rows(out.rows)
        built == IF main THEN main_build_products(Val(data))
                 ELSE Some(build_products(Val(data)))
    IN IF ~Has(q) THEN Run(Page(500, << >>, None), None, 0, 1, 1)
       ELSE IF ~Has(data) THEN Run(Page(500, << >>, None), q, 1, 1, 1)
       ELSE IF Len(Val(data)) = 0
       THEN Run(Page(404, << >>, None), q, 1, 1, 1)
       ELSE IF ~Has(built) THEN Run(Page(500, << >>, None), q, 1, 1, 1)
       ELSE LET products == Val(built)
            IN Run(Page(200, products,
                        IF num_next_allowed(url.num, limit, offset,
                                            Len(products))
                        THEN Some(next) ELSE None),
                   q, 1, 1, 1)

\* ------------------------------ routers/items.py get_satellite_stac_data
items_run(url, out) ==
    LET collectionId == Val(url.path_id)
        coordinates == url.coordinates
        offset == offset_of(url)
        start_time == convert_to_datetime(url.start_time)
        stop_time == convert_to_datetime(url.stop_time)
        limit == EffectiveLimit(url.num, limit_of(url))
        q == duck_query(Some(collectionId), coordinates, start_time,
                        stop_time, limit, offset)
    IN
    IF ~query_params_ok(url, ItemsMaxLimit) THEN Rejected(422)
    ELSE IF collectionId \notin COLLECTIONS THEN Rejected(400)
    ELSE IF Has(coordinates)
            /\ ~validate_bbox_seq(Val(coordinates).len, Val(coordinates).comps)
    THEN Rejected(422)
    ELSE IF ~(validate_time(url.start_time) /\ validate_time(url.stop_time))
    THEN Rejected(422)
    ELSE IF Has(url.start_time) /\ Has(url.stop_time)
            /\ str_gt(Val(url.start_time), Val(url.stop_time))
    THEN Rejected(400)
    ELSE duck_finish(url, q, out, limit, offset,
                     items_next(url, start_time, stop_time, limit, offset))

\* ----------------------------------------------- main.py get_all_stacs
main_all_run(url, out) ==
    LET coordinates == url.coordinates
        offset == offset_of(url)
        start_time == convert_to_datetime(url.start_time)
        stop_time == convert_to_datetime(url.stop_time)
        limit == EffectiveLimit(url.num, limit_of(url))
        q == duck_query(None, coordinates, start_time, stop_time, limit,
                        offset)
    IN
    IF ~query_params_ok(url, AllMaxLimit) THEN Rejected(422)
    ELSE IF ~validate_coordinates(coordinates) THEN Rejected(422)
    ELSE IF ~(validate_time(url.start_time) /\ validate_time(url.stop_time))
    THEN Rejected(422)
    \* conn = duckdb_connection() comes before the range check
    ELSE IF Has(start_time) /\ Has(stop_time)
            /\ Val(start_time) > Val(stop_time)
    THEN Run(Page(400, << >>, None), None, 0, 1, 0)
    ELSE duck_finish(url, q, out, limit, offset,
                     main_next(url, start_time, stop_time, limit, offset))

\* ------------------------------------- main.py get_satellite_stac_data
main_sat_run(url, out) ==
    LET platform == Val(url.path_id)
        coordinates == url.coordinates
        offset == offset_of(url)
        start_time == convert_to_datetime(url.start_time)
        stop_time == convert_to_datetime(url.stop_time)
        limit == EffectiveLimit(url.num, limit_of(url))
        q == duck_query(Some(platform), coordinates, start_time, stop_time,
                        limit, offset)
    IN
    IF ~query_params_ok(url, ItemsMaxLimit) THEN Rejected(422)
    ELSE IF platform \notin ALLOWED_PLATFORM THEN Rejected(400)
    ELSE IF ~validate_coordinates(coordinates) THEN Rejected(422)
    ELSE IF ~(validate_time(url.start_time) /\ validate_time(url.stop_time))
    THEN Rejected(422)
    ELSE IF Has(url.start_time) /\ Has(url.stop_time)
            /\ str_gt(Val(url.start_time), Val(url.stop_time))
    THEN Rejected(400)
    ELSE duck_finish(url, q, out, limit, offset,
                     main_next(url, start_time, stop_time, limit, offset))

\* ------------------------------------------ routers/items.py get_stac_item
item_run(url, out) ==
    LET collectionId == Val(url.path_id)
        q == ItemQuery(collectionId, Val(url.itemId))
        data == IF out.fail THEN None ELSE serialize_rows(out.rows)
    IN
    IF collectionId \notin COLLECTIONS THEN Rejected(400)
    ELSE IF ~Has(data) THEN Run(Page(500, << >>, None), Some(q), 1, 1, 1)
    ELSE IF Len(Val(data)) = 0
    THEN Run(Page(404, << >>, None), Some(q), 1, 1, 1)
    ELSE Run(Page(200, build_products(Val(data)), None), Some(q), 1, 1, 1)

\* --------------------------------- routers/items.py download_stac_item_zip
\* what s3_client.get_object does: the object, or a ClientError by its code
S3Outcomes == {"Body", "NoSuchKey", "AccessDenied", "InternalError"}

\* the response is the stream of the object, not a page: no products
download_run(url, s3_response) ==
    LET collectionId == Val(url.path_id)
        status == CASE s3_response = "Body" -> 200
                    [] s3_response = "NoSuchKey" -> 404
                    [] s3_response = "AccessDenied" -> 403
                    [] OTHER -> 500
    IN
    IF collectionId \notin COLLECTIONS THEN Rejected(400)
    ELSE Run(Page(status, << >>, None), None, 1, 0, 0)

\* ------------------------------------------------------------------ inputs
Wkt == Spatial("wkt", <<0, 0, 1, 1>>, 10)
Junk == Spatial("junk", <<1, 1, 2, 2>>, 4)
JunkDesc == Spatial("junk", <<2, 1, 1, 1>>, 4)
Csv == Spatial("csv", <<0, 0, 1, 1>>, 4)
CsvDesc == Spatial("csv", <<1, 0, 0, 1>>, 4)
\* six components: min_lon, min_lat, min_elev, max_lon, max_lat, max_elev
Csv6 == Spatial("csv", <<1, 1, 0, 2, 2, 9>>, 6)
Csv5 == Spatial("csv", <<0, 0, 0, 1, 1>>, 5)
Text == Spatial("text", << >>, 0)

IsoZ(d) == TimeStr("T", TRUE, d)
Iso(d) == TimeStr("T", FALSE, d)

TimePairs ==
    {<<None, None>>, <<Some(IsoZ(1)), None>>,
     <<Some(BadTime), Some(IsoZ(1))>>,
     <<Some(Iso(1)), Some(Iso(MaxDay))>>,
     <<Some(Iso(MaxDay)), Some(Iso(1))>>,
     <<Some(IsoZ(1)), Some(Iso(1))>>}
      \cup {<<Some(IsoZ(d1)), Some(IsoZ(d2))>> : d1, d2 \in 1..MaxDay}

OptInts(lo, hi) == {None} \cup {Some(i) : i \in lo..hi}
\* limit and offset as sent: absent, inside and just outside ge / le
LimitInputs(B) == OptInts(0, MaxLimit) \cup {Some(B), Some(B + 1)}
OffsetInputs == OptInts(-1, MaxOffset)

FreshUrls(route) ==
    IF route = "search"
    THEN {Url(route, None, c, b, None, tp[1], tp[2], None, l, o) :
            c \in {None, Some("PierSight_V01"), Some("unknown"), Some("")},
            b \in {None, Some(Csv), Some(CsvDesc), Some(Text), Some(Csv6),
                  Some(Csv5)},
            tp \in TimePairs,
            l \in LimitInputs(SearchMaxLimit), o \in OffsetInputs}
    ELSE IF route = "items"
    THEN {Url(route, Some(c), None, None, g, tp[1], tp[2], n, l, o) :
            c \in {"PierSight_V01"},
            g \in {None, Some(Wkt), Some(Junk), Some(JunkDesc)},
            tp \in TimePairs, n \in OptInts(-1, MaxNum),
            l \in LimitInputs(ItemsMaxLimit), o \in OffsetInputs}
         \cup {Url(route, Some("unknown"), None, None, g, tp[1], tp[2],
                   None, l, None) :
                 g \in {None, Some(Wkt), Some(Junk)}, tp \in TimePairs,
                 l \in {None, Some(0)}}
    ELSE IF route = "main_all"
    THEN {Url(route, None, None, None, g, tp[1], tp[2], n, l, o) :
            g \in {None, Some(Wkt), Some(Junk)},
            tp \in TimePairs, n \in OptInts(-1, MaxNum),
            l \in LimitInputs(AllMaxLimit), o \in OffsetInputs}
    ELSE IF route \in {"item", "download"}
    THEN {ItemUrl(route, c, i) :
            c \in {"PierSight_V01", "unknown"}, i \in 0..MaxRows}
    ELSE {Url(route, Some(c), None, None, g, tp[1], tp[2], n, l, o) :
            c \in {"VARUNA-1"},
            g \in {None, Some(Wkt), Some(Junk)},
            tp \in TimePairs, n \in OptInts(-1, MaxNum),
            l \in LimitInputs(ItemsMaxLimit), o \in OffsetInputs}
         \cup {Url(route, Some("unknown"), None, None, g, tp[1], tp[2],
                   None, l, None) :
                 g \in {None, Some(Wkt), Some(Junk)}, tp \in TimePairs,
                 l \in {None, Some(0)}}

\* the next URL of the last response, when it belongs to the route
NextUrls(route) ==
    IF Has(resp) /\ Has(Val(resp).next) /\ Val(Val(resp).next).route = route
    THEN {Val(Val(resp).next)} ELSE {}

\* ------------------------------------------------- rate limiter and cache
\* @limiter.limit("5/minute")
PerMinute == 5
Clients == {"10.0.0.1", "10.0.0.2"}
\* catalog (like every GET handler of the routers but the download) is
\* cached and limited, download is limited only
Endpoints == {"catalog", "download"}
Cached == {"catalog"}

RateInit ==
    /\ limiter = [c \in Clients |-> [e \in Endpoints |-> 0]]
    /\ cache = {}
    /\ answered = [c \in Clients |-> [e \in Endpoints |-> 0]]
    /\ last = None

\* ------------------------------------------------------ collection table
CollIds == {"PierSight_V01", "PierSight_V02", "PierSight_V03"}

CollInit == table = {} /\ creply = None

\* ---------------------------------------------------------- JWT middleware
UserIds == 1..MaxUser

JwtInit == users = {1} /\ calls = 0 /\ jreply = None

\* ------------------------------------------------- registration requests
Requests == 1..MaxRequests
Emails == {"ada@example.com", "bob@example.com"}

Idle == [email |-> "", pc |-> "idle", existing_user |-> FALSE, status |-> 0]

RegInit == user_rows = << >> /\ reg = [r \in Requests |-> Idle]

\* ----------------------------------------------------------------- actions
Init ==
    /\ RateInit /\ CollInit /\ JwtInit /\ RegInit
    /\ store \in {Table(n, 0) : n \in 0..MaxRows} \cup {Table(MaxRows, 2)}
    /\ ordered \in BOOLEAN
    /\ materialises \in BOOLEAN
    /\ req = None /\ resp = None /\ plan = None /\ execs = 0
    /\ opened = 0 /\ open_conns = 0
    /\ prev = None /\ pages = << >> /\ origin = None /\ fetched = None

Summary(r) == [status |-> r.status, products |-> r.products,
               more |-> Has(r.next)]

\* The handlers share nothing but the store, so a fresh request after a
\* response leads where it leads from the initial state: a behaviour is
\* one fresh request and the walk along the next URLs that follows it.
Candidates(route) ==
    NextUrls(route) \cup (IF req = None THEN FreshUrls(route) ELSE {})

\* the handler of the route of a URL
handler(url, out) ==
    CASE url.route # "download" /\ ~out.connected ->
           Run(Page(500, << >>, None), None, 0, 0, 0)
      [] url.route = "search" -> search_run(url, out)
      [] url.route = "items" -> items_run(url, out)
      [] url.route = "main_all" -> main_all_run(url, out)
      [] url.route = "item" -> item_run(url, out)
      [] url.route = "download" -> download_run(url, out)
      [] OTHER -> main_sat_run(url, out)

\* what the store can do when the handler of url calls it
Outcomes(url) ==
    LET none == IF url.route = "download" THEN "InternalError" ELSE NoOutcome
        r0 == handler(url, none)
    IN (IF r0.execs = 0 THEN {none}
        ELSE IF url.route = "download" THEN S3Outcomes
        ELSE ExecOutcomes(Val(r0.plan)))
         \cup (IF url.route # "download" /\ r0.opened > 0
               THEN {ConnectFailure} ELSE {})

\* One request to a route, from its arrival to its response; out is what
\* the store does when the handler executes its query.
Handle(route) ==
    \E url \in Candidates(route) :
      \E out \in Outcomes(url) :
           LET r == handler(url, out)
               follow == url \in NextUrls(route)
           IN /\ req' = Some(url)
              /\ resp' = Some(r.resp)
              /\ plan' = r.plan
              /\ execs' = r.execs
              /\ opened' = r.opened
              /\ open_conns' = open_conns + r.opened - r.closed
              /\ prev' = IF follow
                         THEN Some([products |-> Val(resp).products,
                                    plan |-> Val(plan)])
                         ELSE None
              /\ pages' = IF follow THEN Append(pages, Summary(r.resp))
                          ELSE <<Summary(r.resp)>>
              /\ origin' = IF follow THEN origin ELSE Some(url)
              /\ fetched' = IF url.route # "download"
                               /\ (r.execs > 0 \/ ~out.connected)
                            THEN Some(out) ELSE None
              /\ UNCHANGED <<store, ordered, materialises, not_list>>

search_get_all_stacs == Handle("search")
items_get_satellite_stac_data == Handle("items")
main_get_all_stacs == Handle("main_all")
main_get_satellite_stac_data == Handle("main_sat")
items_get_stac_item == Handle("item")
items_download_stac_item_zip == Handle("download")

Next ==
    \/ search_get_all_stacs
    \/ items_get_satellite_stac_data
    \/ main_get_all_stacs
    \/ main_get_satellite_stac_data
    \/ items_get_stac_item
    \/ items_download_stac_item_zip

Spec == Init /\ [][Next]_vars

\* ------------------------------------------- requests to limited endpoints
\* The handlers are declared
\*     @cache(expire=..., key_builder=my_key_builder)
\*     @limiter.limit("5/minute")
\*     async def handler(request, response, ...)
\* so the function the router calls is the cache wrapper around the limiter
\* wrapper around the handler.  The cache wrapper answers a stored key
\* without calling what it wraps; the key is the path and the query string
\* (my_key_builder), not the client.  The limiter wrapper counts the call
\* under the client address and raises RateLimitExceeded (429) beyond
\* PerMinute; otherwise it calls the handler.
limiter_limit(c, e) ==
    IF limiter[c][e] >= PerMinute
    THEN [status |-> 429, limiter |-> limiter]
    ELSE [status |-> 200,
          limiter |-> [limiter EXCEPT ![c][e] = limiter[c][e] + 1]]

Serve(e) ==
    \E c \in Clients :
      /\ answered[c][e] < MaxAnswered
      /\ IF e \in Cached /\ e \in cache
         THEN /\ last' = Some([endpoint |-> e, status |-> 200,
                               from_cache |-> TRUE])
              /\ answered' = [answered EXCEPT ![c][e] = answered[c][e] + 1]
              /\ UNCHANGED <<limiter, cache>>
         ELSE LET r == limiter_limit(c, e)
              IN /\ limiter' = r.limiter
                 /\ last' = Some([endpoint |-> e, status |-> r.status,
                                  from_cache |-> FALSE])
                 /\ answered' = IF r.status = 429 THEN answered
                                ELSE [answered EXCEPT
                                        ![c][e] = answered[c][e] + 1]
                 /\ cache' = IF r.status = 200 /\ e \in Cached
                             THEN cache \cup {e} ELSE cache
      /\ UNCHANGED not_rate

catalog_get_piersight_catalog == Serve("catalog")
download_limited == Serve("download")

\* the one-minute window of client c on endpoint e ends
window_expires ==
    \E c \in Clients, e \in Endpoints :
      /\ limiter[c][e] > 0 \/ answered[c][e] > 0
      /\ limiter' = [limiter EXCEPT ![c][e] = 0]
      /\ answered' = [answered EXCEPT ![c][e] = 0]
      /\ UNCHANGED <<cache, last, not_rate>>

\* the stored response of endpoint e reaches its expire time
cache_expires ==
    \E e \in cache :
      /\ cache' = cache \ {e}
      /\ UNCHANGED <<limiter, answered, last, not_rate>>

ListIdle ==
    /\ store = << >> /\ ordered = TRUE /\ materialises = TRUE
    /\ req = None /\ resp = None /\ plan = None /\ execs = 0
    /\ opened = 0 /\ open_conns = 0
    /\ prev = None /\ pages = << >> /\ origin = None /\ fetched = None

InitRate == ListIdle /\ RateInit /\ CollInit /\ JwtInit /\ RegInit

NextRate ==
    \/ catalog_get_piersight_catalog
    \/ download_limited
    \/ window_expires
    \/ cache_expires

SpecRate == InitRate /\ [][NextRate]_vars

\* ------------------------------------------------- routers/collections.py
\* The answer of a handler declared with response_model=CollectionModel:
\* the returned value is validated against the model, and a value that is
\* not one collection (None, a list) is a server error.
Reply(op, id, status, body) ==
    [op |-> op, id |-> id, status |-> status, body |-> body]

response_model(op, id, success, value) ==
    IF value.kind = "model" THEN Reply(op, id, success, Some(value.id))
    ELSE Reply(op, id, 500, None)

Value(kind, id) == [kind |-> kind, id |-> id]

\* what the session does during create_collection
CreateOutcomes == {"ok", "execute_fails", "commit_fails"}

\* create_collection.  raise HTTPException(409) stands inside the try, and
\* the except clause catches every Exception, builds an HTTPException(500)
\* without raising it and falls off the end of the function: None.
create_collection_run(id, out) ==
    IF out = "execute_fails"
    THEN [value |-> Value("none", id), table |-> table,
          existed |-> id \in table]
    ELSE IF id \in table
    THEN [value |-> Value("none", id), table |-> table, existed |-> TRUE]
    ELSE IF out = "commit_fails"
    THEN [value |-> Value("none", id), table |-> table,
          existed |-> FALSE]
    ELSE [value |-> Value("model", id), table |-> table \cup {id},
          existed |-> FALSE]

create_collection ==
    \E id \in CollIds, out \in CreateOutcomes :
      LET r == create_collection_run(id, out)
      IN /\ table' = r.table
         /\ creply' = Some([reply |-> response_model("create", id, 201,
                                                     r.value),
                            existed |-> r.existed, outcome |-> out,
                            before |-> table])
         /\ UNCHANGED not_coll

\* get_collection.  The route is /collections/{collection_id} and the
\* function takes collectionId: str, which is therefore a required query
\* parameter (422 without it), not the path segment id.  The handler
\* selects the rows with collectionId and returns the list built from them
\* (no branch for an empty list); an exception of the session is raised as
\* HTTPException(500).
get_collection_run(id, collectionId, fails) ==
    IF ~Has(collectionId) THEN Reply("get", id, 422, None)
    ELSE IF fails THEN Reply("get", id, 500, None)
    ELSE response_model("get", id, 200,
                        [kind |-> "list", id |-> id,
                         rows |-> {Val(collectionId)} \cap table])

get_collection ==
    \E id \in CollIds, fails \in BOOLEAN :
    \E collectionId \in {None, Some(id)} :
      /\ creply' = Some([reply |-> get_collection_run(id, collectionId,
                                                      fails),
                         existed |-> id \in table,
                         outcome |-> IF fails /\ Has(collectionId)
                                     THEN "execute_fails" ELSE "ok",
                         before |-> table])
      /\ UNCHANGED <<table, not_coll>>

InitColl == ListIdle /\ RateInit /\ CollInit /\ JwtInit /\ RegInit

NextColl == create_collection \/ get_collection

SpecColl == InitColl /\ [][NextColl]_vars

\* ------------------------------------ middlewares/jwt_auth_middleware.py
EXCLUDED_PATHS == {"/api"}
Paths == {"/api", "/v1/search"}

\* The user_id claim of a decoded token, as JSON gives it: absent, an
\* integer, a string (of digits or not), a number with a fraction, a list.
Claim(type, value) == [type |-> type, value |-> value]
Claims ==
    {Claim("missing", 0), Claim("text", 0), Claim("list", 0)}
      \cup {Claim(t, v) : t \in {"int", "digits", "fraction"}, v \in UserIds}

\* A token: expired, not decodable, or decodable with a user_id claim
Token(state, user_id) == [state |-> state, user_id |-> user_id]
Tokens ==
    {Token("expired", Claim("int", 1)), Token("undecodable", Claim("int", 1))}
      \cup {Token("valid", c) : c \in Claims}

\* int(id): the integer for an int, for a string of digits and (truncated)
\* for a number with a fraction; ValueError for another string; TypeError
\* for a list
int(id) ==
    CASE id.type \in {"int", "digits", "fraction"} ->
           [raises |-> "", value |-> id.value]
      [] id.type = "text" -> [raises |-> "ValueError", value |-> 0]
      [] OTHER -> [raises |-> "TypeError", value |-> 0]

\* validate_token: "ok", or the exception that leaves it.  The handler of
\* SQLAlchemyError reads e, which no clause of that try has bound when it
\* runs: building the HTTPException(500) raises UnboundLocalError.
validate_token(token, db_fails) ==
    IF token.state = "expired" THEN "HTTPException401"
    ELSE IF token.state = "undecodable" THEN "HTTPException401"
    ELSE IF token.user_id.type = "missing" THEN "HTTPException401"
    ELSE IF int(token.user_id).raises = "ValueError" THEN "HTTPException401"
    ELSE IF int(token.user_id).raises = "TypeError" THEN "TypeError"
    ELSE IF db_fails THEN "UnboundLocalError"
    ELSE IF int(token.user_id).value \notin users THEN "HTTPException401"
    ELSE "ok"

\* dispatch: the status of the answer and whether call_next was called
dispatch_run(path, authorization, db_fails) ==
    IF path \in EXCLUDED_PATHS THEN [status |-> 200, called |-> TRUE]
    ELSE IF ~Has(authorization) THEN [status |-> 401, called |-> FALSE]
    ELSE LET is_valid == validate_token(Val(authorization), db_fails)
         IN IF is_valid = "ok" THEN [status |-> 200, called |-> TRUE]
            ELSE IF is_valid = "HTTPException401"
            THEN [status |-> 401, called |-> FALSE]
            ELSE [status |-> 400, called |-> FALSE]

dispatch ==
    \E path \in Paths, db_fails \in BOOLEAN :
    \E authorization \in {None} \cup {Some(t) : t \in Tokens} :
      LET r == dispatch_run(path, authorization, db_fails)
      IN /\ calls < MaxCalls
         /\ calls' = IF r.called THEN calls + 1 ELSE calls
         /\ jreply' = Some([path |-> path, authorization |-> authorization,
                            db_fails |-> db_fails, users |-> users,
                            status |-> r.status, called |-> r.called])
         /\ UNCHANGED <<users, not_jwt>>

\* a user registers or is removed
users_change ==
    \E u \in UserIds :
      /\ users' = IF u \in users THEN users \ {u} ELSE users \cup {u}
      /\ UNCHANGED <<calls, jreply, not_jwt>>

InitJwt == ListIdle /\ RateInit /\ CollInit /\ JwtInit /\ RegInit

NextJwt == dispatch \/ users_change

SpecJwt == InitJwt /\ [][NextJwt]_vars

\* ------------------------------------------- auth-service/main.py, new_user
\* the committed rows with that email
RowsWith(email) == SelectSeq(user_rows, LAMBDA m : m = email)

\* The INSERT of a commit against the unique index of User.email: the row
\* is appended, or the commit raises IntegrityError
commit_insert(email) ==
    IF Len(RowsWith(email)) > 0
    THEN [raises |-> TRUE, rows |-> user_rows]
    ELSE [raises |-> FALSE, rows |-> Append(user_rows, email)]

\* POST /new_user arrives
post_new_user ==
    \E r \in Requests, email \in Emails :
      /\ reg[r].pc = "idle"
      /\ reg' = [reg EXCEPT ![r] = [Idle EXCEPT !.email = email, !.pc = "select"]]
      /\ UNCHANGED <<user_rows, not_reg>>

\* create_users up to its first await: the select by email, and the 409
\* when it found a row
create_users_select ==
    \E r \in Requests :
      /\ reg[r].pc = "select"
      /\ LET existing_user == Len(RowsWith(reg[r].email)) > 0
         IN reg' = [reg EXCEPT ![r] =
                      IF existing_user
                      THEN [@ EXCEPT !.existing_user = TRUE, !.pc = "done",
                                     !.status = 409]
                      ELSE [@ EXCEPT !.pc = "commit"]]
      /\ UNCHANGED <<user_rows, not_reg>>

\* create_users from db.add to its return: 201 after the commit, 422 from
\* `except Exception` when the commit raises
create_users_commit ==
    \E r \in Requests :
      /\ reg[r].pc = "commit"
      /\ LET c == commit_insert(reg[r].email)
         IN /\ user_rows' = c.rows
            /\ reg' = [reg EXCEPT ![r] =
                         [@ EXCEPT !.pc = "done",
                                   !.status = IF c.raises THEN 422 ELSE 201]]
      /\ UNCHANGED not_reg

InitReg == ListIdle /\ RateInit /\ CollInit /\ JwtInit /\ RegInit

NextReg == post_new_user \/ create_users_select \/ create_users_commit

SpecReg == InitReg /\ [][NextReg]_vars

\* ----------------------------------------------------------------- claims
Answered == Has(resp)
PageOut == Has(resp) /\ Val(resp).status = 200
NextOut == PageOut /\ Has(Val(resp).next)
\* the effective limit of the last request is the LIMIT of its query
EffLimit == Val(plan).limit
PlanOffset(q) == IF Has(q.offset) THEN Val(q.offset) ELSE 0
Rejection == Has(resp) /\ Val(resp).status \in {400, 422}
\* the paginated list handlers
ListRoutes == {"search", "items", "main_all", "main_sat"}
Listing == Has(req) /\ Val(req).route \in ListRoutes

RECURSIVE Returned(_)
Returned(ps) ==
    IF ps = << >> THEN << >>
    ELSE Returned(SubSeq(ps, 1, Len(ps) - 1)) \o ps[Len(ps)].products

\* position (from 1) of the row with this id among the rows the last query
\* matches, in table order
Position(id) ==
    LET m == Matching(Val(plan))
    IN CHOOSE i \in 1..Len(m) : m[i].id = id

C3_NextOffsetAndLimit ==
    NextOut =>
      /\ Val(resp).next[1].offset = Some(offset_of(Val(req)) + EffLimit)
      /\ Val(resp).next[1].limit = Some(EffLimit)

C3_Witness ==
    /\ NextOut
    /\ ~Has(Val(req).offset)
    /\ Val(resp).next[1].offset = Some(EffLimit)

\* C4: with num present and below limit the query has LIMIT num (otherwise
\* LIMIT limit), its OFFSET is the offset of the request, and a next URL of
\* that page carries limit = num.
C4_NumBelowLimitIsLimit ==
    (Has(plan) /\ Has(Val(req).num)) =>
      LET num == Val(Val(req).num)
          limit == limit_of(Val(req))
      IN /\ EffLimit = IF num < limit THEN num ELSE limit
         /\ PlanOffset(Val(plan)) = offset_of(Val(req))
         /\ (NextOut /\ num < limit) => Val(resp).next[1].limit = Some(num)

Ids(rows) == [i \in 1..Len(rows) |-> rows[i].id]
\* the rows the first request of the walk matches, in the order in which
\* the store hands them back
OriginIds ==
    Ids(CHOOSE s \in ScanOrders(Val(handler(Val(origin), NoOutcome).plan)) :
          TRUE)
LastPage == pages[Len(pages)]

Elems(seq) == {seq[i] : i \in 1..Len(seq)}

C9_RejectedBeforeStore ==
    Rejection => (execs = 0 /\ opened = 0)

\* C10: no DuckDB connection opened by a handler is left open once the
\* handler has returned or raised.
C10_ConnectionsClosed == open_conns = 0

\* the category id of a request: the collectionId query parameter on the
\* search route, the path parameter elsewhere
CategoryOf(url) ==
    IF url.route = "search" THEN url.collectionId ELSE url.path_id

\* the upper bound the route declares for limit
RouteMaxLimit(route) ==
    CASE route = "search" -> SearchMaxLimit
      [] route = "main_all" -> AllMaxLimit
      [] OTHER -> ItemsMaxLimit

\* limit and offset of the last request pass the declared ge / le
Declared == Has(req) /\ query_params_ok(Val(req), RouteMaxLimit(Val(req).route))

\* C11: on the search, collection-items, single-item and download routes a
\* present category id outside the allow-list gives 400 with no store call,
\* whatever else the request carries, and an id in the allow-list is not
\* rejected with 400 when nothing else can be (no time pair).  Stated for
\* requests whose limit and offset pass the declared bounds.
C11_UnknownCategoryRejected ==
    (Declared /\ Val(req).route \in {"search", "items", "item", "download"}) =>
      LET c == CategoryOf(Val(req))
          timed == Has(Val(req).start_time) /\ Has(Val(req).stop_time)
      IN /\ (Has(c) /\ Val(c) \notin COLLECTIONS) =>
              (Val(resp).status = 400 /\ execs = 0 /\ opened = 0)
         /\ (Has(c) /\ Val(c) \in COLLECTIONS /\ ~timed) =>
              Val(resp).status # 400

\* the last request carries nothing but its time parameters that a
\* validator could reject
OnlyTimes ==
    /\ Declared /\ Listing
    /\ ~Has(Val(req).bbox) /\ ~Has(Val(req).coordinates)
    /\ LET c == CategoryOf(Val(req))
       IN Has(c) => Val(c) \in (COLLECTIONS \cup ALLOWED_PLATFORM)

\* the instant a well-formed time string denotes
instant(time) == time.d

\* C12: with start_time and stop_time both well-formed, start after stop
\* gives 400 and no query; a malformed time string gives 422, never 400;
\* start not after stop is not rejected with 400.
C12_TimeRangeRejected ==
    OnlyTimes =>
      LET st == Val(req).start_time
          sp == Val(req).stop_time
          wellformed == validate_time(st) /\ validate_time(sp)
      IN /\ ~wellformed => Val(resp).status = 422
         /\ (Has(st) /\ Has(sp) /\ wellformed) =>
              IF instant(Val(st)) > instant(Val(sp))
              THEN Val(resp).status = 400 /\ execs = 0
              ELSE Val(resp).status # 400

\* C13: a query executed for a request with well-formed start_time and
\* stop_time, start not after stop, has the time clause bound to the two
\* instants.
C13_TimeClauseKept ==
    (Listing /\ Has(plan)
       /\ Has(Val(req).start_time) /\ Has(Val(req).stop_time)
       /\ validate_time(Val(req).start_time)
       /\ validate_time(Val(req).stop_time)
       /\ instant(Val(Val(req).start_time)) <= instant(Val(Val(req).stop_time)))
      => Val(plan).time = Some(<<instant(Val(Val(req).start_time)),
                                 instant(Val(Val(req).stop_time))>>)

\* the last request carries nothing but its spatial parameter that a
\* validator could reject
OnlySpatial ==
    /\ Declared /\ Listing
    /\ ~Has(Val(req).start_time) /\ ~Has(Val(req).stop_time)
    /\ LET c == CategoryOf(Val(req))
       IN Has(c) => Val(c) \in (COLLECTIONS \cup ALLOWED_PLATFORM)

\* C14: on the routes that take WKT, well-formed WKT of any length is
\* accepted and its intersects clause is in the executed query; a value is
\* rejected with 422 exactly when it is not WKT.
C14_WktValidated ==
    (OnlySpatial /\ Val(req).route \in {"items", "main_all", "main_sat"}
       /\ Has(Val(req).coordinates)) =>
      LET g == Val(Val(req).coordinates)
      IN IF g.kind = "wkt"
         THEN /\ Val(resp).status # 422
              /\ Has(plan) /\ Val(plan).spatial = Some(g.comps)
         ELSE Val(resp).status = 422

\* a bbox string is well-formed: 4 or 6 numbers, min_lon <= max_lon and
\* min_lat <= max_lat (with 6, the maxima are the 4th and 5th component)
bbox_wellformed(bbox) ==
    /\ bbox.kind = "csv"
    /\ Len(bbox.comps) \in {4, 6}
    /\ LET c == bbox.comps
           hi == IF Len(c) = 6 THEN 3 ELSE 2
       IN c[1] <= c[1 + hi] /\ c[2] <= c[2 + hi]

\* C15: on the search route a bbox is accepted exactly when it is
\* well-formed; any other bbox gets 422 and no query is executed.
C15_BboxValidated ==
    (OnlySpatial /\ Val(req).route = "search" /\ Has(Val(req).bbox)) =>
      IF bbox_wellformed(Val(Val(req).bbox))
      THEN Val(resp).status # 422
      ELSE Val(resp).status = 422 /\ execs = 0

\* C16: a request to a list route with limit outside 1..B (B the bound of
\* the route) or a negative offset gets 422 and touches no store; a query
\* executed for a request without num has LIMIT in 1..B and OFFSET >= 0.
C16_LimitOffsetBounds ==
    Listing =>
      LET url == Val(req)
          B == RouteMaxLimit(url.route)
          inside == limit_of(url) \in 1..B /\ offset_of(url) >= 0
      IN /\ ~inside => (Val(resp).status = 422 /\ execs = 0 /\ opened = 0)
         /\ (Has(plan) /\ ~Has(url.num)) =>
              (Val(plan).limit \in 1..B /\ PlanOffset(Val(plan)) >= 0)

C16_Witness ==
    /\ Listing /\ Val(req).route = "search"
    /\ Val(req).limit = Some(SearchMaxLimit + 1)
    /\ Val(resp).status = 422 /\ execs = 0

\* C17: on the search, collection-items and single-item routes a query that
\* executes successfully with zero rows is answered 404 with no page, and
\* one that returns one or more rows is never answered 404.
C17_EmptyResultIs404 ==
    (Has(req) /\ Val(req).route \in {"search", "items", "item"}
       /\ Has(fetched) /\ ~Val(fetched).fail) =>
      IF Len(Val(fetched).rows) = 0
      THEN Val(resp).status = 404 /\ Val(resp).products = << >>
      ELSE Val(resp).status # 404

\* The text handed to execute for the query q.  clauses: which clauses the
\* text has; literals: the values written into the text itself.  The
\* search route names bound parameters (:collectionId, :min_lon, ...,
\* :limit, :offset) and passes the values beside the text; the other
\* routes format every value into the text with f-strings.
sql_text(route, q) ==
    [clauses |-> [category |-> Has(q.category), item |-> Has(q.item),
                  spatial |-> Has(q.spatial), time |-> Has(q.time),
                  order_by |-> q.order_by, limit |-> ~Has(q.item),
                  offset |-> Has(q.offset)],
     literals |-> IF route = "search" THEN None ELSE Some(q)]

\* requests that differ from url in the value of one present parameter
Variants(url) ==
    {[url EXCEPT !.limit = Some(l)] :
       l \in IF Has(url.limit) THEN 1..MaxLimit ELSE {}}
    \cup {[url EXCEPT !.offset = Some(o)] :
            o \in IF Has(url.offset) THEN 0..MaxOffset ELSE {}}
    \cup {[url EXCEPT !.itemId = Some(i)] :
            i \in IF Has(url.itemId) THEN 0..MaxRows ELSE {}}
    \cup {[url EXCEPT !.path_id = Some(c)] :
            c \in IF Has(url.path_id)
                  THEN COLLECTIONS \cup ALLOWED_PLATFORM ELSE {}}
    \cup {[url EXCEPT !.start_time = Some(IsoZ(d))] :
            d \in IF Has(url.start_time) THEN 1..MaxDay ELSE {}}

\* C18: the text of a query depends only on which parameters of the request
\* are present: a request to the same route with the same parameters
\* present and another value for one of them is sent with the same text.
C18_QueryTextValueFree ==
    (Has(req) /\ Has(plan) /\ prev = None) =>
      \A v \in Variants(Val(req)) :
        LET p == handler(v, NoOutcome).plan
        IN Has(p) => sql_text(v.route, Val(p))
                       = sql_text(v.route, Val(plan))

Available(q) == Len(CHOOSE s \in ScanOrders(q) : TRUE)

C21_RateLimitCounts ==
    \A c \in Clients, e \in Endpoints : answered[c][e] <= PerMinute

C24_CreateCollection ==
    (Has(creply) /\ Val(creply).reply.op = "create") =>
      LET c == Val(creply)
      IN /\ c.existed => (c.reply.status = 409 /\ table = c.before)
         /\ (~c.existed /\ c.outcome = "commit_fails") => c.reply.status = 500
         /\ c.reply.status = 201 =>
              (c.reply.id \in table /\ c.reply.body = Some(c.reply.id))

\* C25: get_collection answers 404 for an id that has no row in the store
\* and answers an existing id with the metadata of that collection.
C25_GetCollection ==
    (Has(creply) /\ Val(creply).reply.op = "get"
       /\ Val(creply).outcome = "ok") =>
      LET c == Val(creply)
      IN IF c.existed
         THEN c.reply.status = 200 /\ c.reply.body = Some(c.reply.id)
         ELSE c.reply.status = 404

C27_NumKeepsLimitInBounds ==
    (Listing /\ Has(Val(req).num) /\ Has(plan)) =>
      Val(plan).limit \in 1..RouteMaxLimit(Val(req).route)

\* the walk has ended: an error, or a page without next URL
WalkEnded == Has(resp) /\ (Val(resp).status # 200 \/ ~Has(Val(resp).next))

\* C28: pagination terminates: along the requests of the emitted next URLs
\* the offset grows strictly, and an answer without next URL or an error is
\* reached after finitely many requests: a walk that has not ended has
\* made no more requests than the store has rows, so it ends with the
\* request after those at the latest.
C28_PaginationTerminates ==
    /\ Has(prev) => offset_of(Val(req)) > PlanOffset(Val(prev).plan)
    /\ ~WalkEnded => Len(pages) <= Len(store)
    /\ Len(pages) <= Len(store) + 1

\* a walk of three requests has ended
C28_Witness == Len(pages) >= 3 /\ WalkEnded /\ Val(req).route \in ListRoutes

\* the token of the request is decodable, not expired, and carries an
\* integer user_id
IntegerUserId(j) ==
    /\ Has(j.authorization)
    /\ Val(j.authorization).state = "valid"
    /\ Val(j.authorization).user_id.type \in {"int", "digits"}

\* C29: for a path that is not excluded the middleware calls the handler
\* only after validate_token has succeeded; a missing header, an expired
\* or undecodable token, a missing or non-integer user_id, or a user_id
\* without a user gives 401 and no call; an error of the store during the
\* user lookup gives 500 and no call.
C29_JwtGuardsHandler ==
    (Has(jreply) /\ Val(jreply).path \notin EXCLUDED_PATHS) =>
      LET j == Val(jreply)
          known == IntegerUserId(j)
                     /\ Val(j.authorization).user_id.value \in j.users
      IN IF ~IntegerUserId(j) THEN j.status = 401 /\ ~j.called
         ELSE IF j.db_fails THEN j.status = 500 /\ ~j.called
         ELSE IF ~known THEN j.status = 401 /\ ~j.called
         ELSE j.called

\* the requests of create_users that carry that email
Carrying(email) == {r \in Requests : reg[r].email = email}

\* C30: when concurrent create_users requests with the same email have
\* all been answered, at most one row has that email, exactly one of them
\* was answered 201 and every other one 409.
C30_OneRegistrationPerEmail ==
    \A email \in Emails :
      LET rs == Carrying(email)
      IN (rs # {} /\ \A r \in rs : reg[r].pc = "done") =>
           /\ Len(RowsWith(email)) <= 1
           /\ Cardinality({r \in rs : reg[r].status = 201}) = 1
           /\ \A r \in rs : reg[r].status \in {201, 409}

====
